---- MODULE Spec2Model ----
(***************************************************************************)
(* A model of the golf-coach backend: the analyze pipeline of              *)
(* app/routers/swings.py, the History Store of                             *)
(* app/services/swing_service.py and the Trace Recorder of                 *)
(* app/utils/debug_logger.py.                                              *)
(*                                                                         *)
(* Texts (error messages, response details) are sequences of string        *)
(* tokens, so that "the response carries the error text" is a statement    *)
(* about sub-sequences.  An absent optional value is <<>> for a text and 0 *)
(* for a number.                                                           *)
(*                                                                         *)
(* Three specifications share the variables:                               *)
(*   Spec       one analyze request at a time, stage by stage;             *)
(*   SpecStore  the History Store endpoints, two DELETE handlers in flight;*)
(*   SpecRing   the Trace Recorder's interface on a pre-filled ring.       *)
(***************************************************************************)
EXTENDS Integers, Sequences, FiniteSets, TLC

VARIABLES
    backend,   \* the database behind database_url: "sqlite" or "postgresql"
    store,     \* the rows of table swings
    seq,       \* postgresql: the last value of the id sequence
    clock,     \* the database clock, read by func.now()
    req,       \* the analyze request being handled
    nreq,      \* analyze requests received so far
    sess,      \* the DebugLogger objects ever constructed, by object number
    ring,      \* DebugLogger._recent_sessions: object numbers, oldest first
    uuid,      \* uuid4() values drawn so far
    fin,       \* every finalize call so far: object numbers, oldest first
    held,      \* the session objects SpecRing's callers hold
    created,   \* the ids create_swing assigned, in the order of the commits
    hist,      \* the last answer of GET /history
    got,       \* the last answer of GET /{swing_id}
    del,       \* the DELETE handlers in flight, by slot
    deleted,   \* the last answer of DELETE /{swing_id}
    confirmed, \* ids whose DELETE returned the success confirmation
    ndel,      \* rows removed so far
    nops,      \* Trace Recorder calls of SpecRing taken so far
    look,      \* the last answer of the Trace Recorder's readers
    text,      \* SpecParse: the analysis text handed to parse_analysis
    parsed     \* SpecParse: what parse_analysis returned for it

vars == <<backend, store, seq, clock, req, nreq, sess, ring, uuid, fin, held,
          created, hist, got, del, deleted, confirmed, ndel, nops, look,
          text, parsed>>

storeVars == <<backend, store, seq, clock, created>>
traceVars == <<sess, ring, uuid, fin>>
endpointVars == <<hist, got, del, deleted, confirmed, ndel>>
ringVars == <<held, look>>
parseVars == <<text, parsed>>

----------------------------------------------------------------------------
(* Bounds of the model. *)

MaxRequests == 1      \* analyze requests per behaviour of Spec
MaxClock == 1         \* ticks of the database clock
MaxCreates == 3       \* create_swing calls per behaviour of SpecStore
MaxPrior == 4         \* records in the store when SpecPrompt starts
MaxLines == 3         \* lines of an analysis text of SpecParse
MaxRingOps == 3       \* Trace Recorder calls per behaviour of SpecRing

(* Program constants. *)

RingCapacity == 50    \* deque(maxlen=50)
MaxImageSizeMb == 5   \* settings.max_image_size_mb
HistoryLimitMax == 100
HistoryLimitMin == 1
RecentLimit == 3      \* get_recent_swings(db, limit=3)

AllowedImageFormats == {"image/jpeg", "image/png", "image/jpg"}

\* The keys of uploaded_files, in the order the dict literal lists them.
Positions == <<"address", "top", "impact", "follow_through">>

----------------------------------------------------------------------------
(* Helpers. *)

Min(a, b) == IF a < b THEN a ELSE b

SetMax(S) == CHOOSE x \in S : \A y \in S : y <= x

Range(s) == {s[i] : i \in 1..Len(s)}

\* t occurs in s as a contiguous run of tokens.
Carries(s, t) ==
    \E i \in 0..(Len(s) - Len(t)) : \A k \in 1..Len(t) : s[i + k] = t[k]

----------------------------------------------------------------------------
(* Exceptions: an HTTPException has a status code and a detail, every     *)
(* other exception a type name and a message (str(e)).                    *)

NoExc == [type |-> "none", status_code |-> 0, msg |-> <<>>]

HTTPException(code, detail) ==
    [type |-> "HTTPException", status_code |-> code, msg |-> detail]

Exc(type, msg) == [type |-> type, status_code |-> 0, msg |-> msg]

----------------------------------------------------------------------------
(* Trace Recorder: app/utils/debug_logger.py *)

\* DebugLogger.__init__: the fields of a new session object.  error_count
\* is a key finalize adds: -1 stands for its absence.
NewSession(rid) ==
    [request_id |-> rid, steps |-> <<>>, errors |-> <<>>,
     steps_completed |-> 0, status |-> "in_progress", error_count |-> -1]

\* DebugLogger.log_step: append the event, move the completed counter, and
\* on a failed step with an error append to the error list.
LogStep(s, n, status, err) ==
    [s EXCEPT !.steps = Append(@, [step_number |-> n, status |-> status,
                                   error |-> err]),
              !.steps_completed = IF status = "completed" THEN n ELSE @,
              !.errors = IF status = "failed" /\ err # <<>>
                         THEN Append(@, [step |-> n, error |-> err])
                         ELSE @]

FinalizeSessionAlwaysSuccess(s, success) ==
    [s EXCEPT !.status = "success", !.error_count = Len(s.errors)]

\* DebugLogger.finalize, the part that stamps the metadata.
FinalizeSession(s, success) ==
    [s EXCEPT !.status = IF success THEN "success" ELSE "failed",
              !.error_count = Len(s.errors)]

RingAppendUnbounded(r, o) == Append(r, o)

RingAppendRefusesWhenFull(r, o) ==
    IF Len(r) >= RingCapacity THEN r ELSE Append(r, o)

\* deque(maxlen=50).append: a full deque drops its oldest element.
RingAppend(r, o) ==
    IF Len(r) >= RingCapacity THEN Append(Tail(r), o) ELSE Append(r, o)

\* DebugLogger.get_session_by_id: the first entry of the deque, oldest
\* first, whose request_id matches; 0 when there is none.
GetSessionById(r, ss, rid) ==
    IF \E i \in 1..Len(r) : ss[r[i]].request_id = rid
    THEN r[CHOOSE i \in 1..Len(r) :
              /\ ss[r[i]].request_id = rid
              /\ \A j \in 1..(i - 1) : ss[r[j]].request_id # rid]
    ELSE 0

\* request_id or str(uuid.uuid4())
NoHeader == <<"none", 0>>
ClientIds == {<<"client", 1>>}
Uuid4(n) == <<"uuid", n + 1>>
RequestId(hdr, n) == IF hdr = NoHeader THEN Uuid4(n) ELSE hdr

----------------------------------------------------------------------------
(* Image Validator and Codec: app/utils/image_utils.py *)

\* The uploads a request may carry for a position: content type, size in
\* whole megabytes, whether PIL can decode the bytes, and the bytes.  The
\* first passes validation, at the size ceiling; each of the others fails
\* one of the three checks.
Uploads ==
    {[content_type |-> "image/jpg", size_mb |-> 5, decodable |-> TRUE, data |-> "jpg"],
     [content_type |-> "image/gif", size_mb |-> 1, decodable |-> TRUE, data |-> "gif"],
     [content_type |-> "image/png", size_mb |-> 6, decodable |-> TRUE, data |-> "big"],
     [content_type |-> "image/png", size_mb |-> 1, decodable |-> FALSE, data |-> "bad"]}

ValidateImageNoSizeCheck(file) ==
    IF file.content_type \notin AllowedImageFormats
    THEN HTTPException(400, <<"Invalid image format">>)
    ELSE IF ~file.decodable
         THEN HTTPException(400, <<"Invalid image file">>)
         ELSE NoExc

\* validate_image: the exception it raises, NoExc when the file passes.
ValidateImage(file) ==
    IF file.content_type \notin AllowedImageFormats
    THEN HTTPException(400, <<"Invalid image format">>)
    ELSE IF file.size_mb > MaxImageSizeMb
         THEN HTTPException(400, <<"Image size exceeds maximum allowed size">>)
         ELSE IF ~file.decodable
              THEN HTTPException(400, <<"Invalid image file">>)
              ELSE NoExc

\* get_image_media_type: the jpeg variants become image/jpeg.
GetImageMediaType(file) ==
    IF file.content_type \in {"image/jpg", "image/jpeg"}
    THEN "image/jpeg"
    ELSE file.content_type

\* UploadFile.read() with the cursor at pos: the bytes from the cursor to
\* the end of the file, and the cursor left at the end.  Every read of the
\* module is of the whole rest of the file, so a cursor is at the start, 0,
\* or at the end, the size of the file.
FileRead(file, pos) ==
    [content |-> IF pos = 0 THEN file.data ELSE "", pos |-> file.size_mb]

CursorAfterValidateNoSeek(file, pos) ==
    IF file.content_type \notin AllowedImageFormats
    THEN pos
    ELSE FileRead(file, pos).pos

\* validate_image, its effect on the cursor of the file: untouched when the
\* content type is refused, at the end when the size is refused (the read
\* is before the check, the seek after it), 0 after either seek(0).
CursorAfterValidate(file, pos) ==
    IF file.content_type \notin AllowedImageFormats
    THEN pos
    ELSE IF file.size_mb > MaxImageSizeMb
         THEN FileRead(file, pos).pos
         ELSE 0

\* image_to_base64: the encoding of what a read from the cursor returns,
\* and the cursor back at 0.
ImageToBase64(file, pos) ==
    [data |-> <<"b64", FileRead(file, pos).content>>, pos |-> 0]

\* image_to_base64_with_type, imported by the router: the encoded bytes and
\* the normalized media type of one upload.
ImageToBase64WithType(file, pos) ==
    [data |-> ImageToBase64(file, pos).data,
     media_type |-> GetImageMediaType(file),
     pos |-> ImageToBase64(file, pos).pos]

----------------------------------------------------------------------------
(* History Store: app/services/swing_service.py over app/models/swing.py *)

Ids(st) == {r.id : r \in st}

\* Swing.id, an INTEGER PRIMARY KEY: sqlite hands out the largest rowid of
\* the table plus one, postgresql the next value of the column's sequence.
NextId(be, st, sq) ==
    IF be = "sqlite"
    THEN (IF st = {} THEN 1 ELSE SetMax(Ids(st)) + 1)
    ELSE sq + 1

\* The row create_swing inserts: id and created_at are assigned by the
\* database (server_default=func.now()).
NewSwing(be, st, sq, now, images, analysis, positions, rating, summary) ==
    [id |-> NextId(be, st, sq), created_at |-> now, images |-> images,
     analysis |-> analysis, positions_analyzed |-> positions,
     rating |-> rating, summary |-> summary]

\* get_swing_by_id: the rows with that id (scalar_one_or_none).
GetSwingById(st, id) == {r \in st : r.id = id}

\* The orders in which ORDER BY created_at DESC may return the rows: rows
\* with equal created_at come in any order.
RECURSIVE DescOrders(_)
DescOrders(st) ==
    IF st = {} THEN {<<>>}
    ELSE UNION {{<<r>> \o t : t \in DescOrders(st \ {r})} :
                r \in {x \in st : \A y \in st : y.created_at <= x.created_at}}

\* ORDER BY created_at DESC LIMIT n, for n >= 0: the first n rows of each
\* of those orders.
RECURSIVE DescPrefixes(_, _)
DescPrefixes(st, n) ==
    IF st = {} \/ n = 0 THEN {<<>>}
    ELSE UNION {{<<r>> \o t : t \in DescPrefixes(st \ {r}, n - 1)} :
                r \in {x \in st : \A y \in st : y.created_at <= x.created_at}}

\* LIMIT limit OFFSET offset over the rows in order `rows`.  sqlite reads a
\* negative LIMIT as no limit and a negative OFFSET as 0.
LimitOffset(rows, limit, offset) ==
    LET off == IF offset < 0 THEN 0 ELSE offset
        lim == IF limit < 0 THEN Len(rows) ELSE limit
    IN  SubSeq(rows, off + 1, Min(off + lim, Len(rows)))

\* postgresql rejects a negative LIMIT or OFFSET: the query raises.
QueryRaises(be, limit, offset) ==
    be = "postgresql" /\ (limit < 0 \/ offset < 0)

----------------------------------------------------------------------------
(* Texts and ClaudeService.parse_analysis.                                 *)
(*                                                                         *)
(* An analysis text is a sequence of lines, a line a sequence of tokens    *)
(* written with single spaces between them.  A token is one of the words   *)
(* the parser's patterns look for, or a run of n other characters.  A      *)
(* string is a sequence of pieces [tok, n], the first n characters of the  *)
(* token tok, so that lengths and slices are those of the characters.      *)

Tok(k, n) == [k |-> k, n |-> n]
Space == Tok("space", 0)
Newline == Tok("newline", 0)

RECURSIVE Digits(_)
Digits(n) == IF n < 10 THEN 1 ELSE 1 + Digits(n \div 10)

\* The number of characters of a token as the text has it.
TokenLen(tok) ==
    CASE tok.k = "word" -> tok.n            \* n letters
      [] tok.k = "heading" -> 18            \* OVERALL ASSESSMENT
      [] tok.k = "kw_rate" -> 7             \* Rating:
      [] tok.k = "kw_overall" -> 7          \* overall
      [] tok.k = "kw_summary" -> 8          \* Summary:
      [] tok.k = "slash10" -> Digits(tok.n) + 3   \* n/10
      [] tok.k = "slash10long" -> tok.n + 3       \* n digits, then /10
      [] tok.k = "number" -> Digits(tok.n)  \* n
      [] tok.k = "dash" -> 1                \* -
      [] tok.k = "two" -> 2                 \* 2.
      [] tok.k = "hash" -> 1                \* #
      [] tok.k = "dots" -> 3                \* ...
      [] OTHER -> 1                         \* space, newline

Piece(tok) == [tok |-> tok, n |-> TokenLen(tok)]

\* len(s)
RECURSIVE StrLen(_)
StrLen(s) == IF s = <<>> THEN 0 ELSE Head(s).n + StrLen(Tail(s))

\* s[:k]
RECURSIVE Take(_, _)
Take(s, k) ==
    IF s = <<>> \/ k <= 0 THEN <<>>
    ELSE IF Head(s).n <= k
         THEN <<Head(s)>> \o Take(Tail(s), k - Head(s).n)
         ELSE <<[Head(s) EXCEPT !.n = k]>>

\* sep.join(strs)
RECURSIVE Join(_, _)
Join(strs, sep) ==
    IF strs = <<>> THEN <<>>
    ELSE IF Len(strs) = 1 THEN strs[1]
         ELSE strs[1] \o sep \o Join(Tail(strs), sep)

IsSpace(piece) == piece.tok.k \in {"space", "newline"}

\* s.strip()
RECURSIVE Strip(_)
Strip(s) ==
    IF s = <<>> THEN <<>>
    ELSE IF IsSpace(Head(s)) THEN Strip(Tail(s))
    ELSE IF IsSpace(s[Len(s)]) THEN Strip(SubSeq(s, 1, Len(s) - 1))
    ELSE s

\* A line as a string.
LineStr(line) ==
    Join([j \in 1..Len(line) |-> <<Piece(line[j])>>], <<Piece(Space)>>)

\* The text from token j of line i to the end of line k, as a string.
SpanStr(txt, i, j, k) ==
    Join(<<LineStr(SubSeq(txt[i], j, Len(txt[i])))>>
            \o [m \in 1..(k - i) |-> LineStr(txt[i + m])],
         <<Piece(Newline)>>)

\* Positions <<line, token>> of a text, in the order of the text.
NoPos == <<0, 0>>
Before(p, q) == p[1] < q[1] \/ (p[1] = q[1] /\ p[2] < q[2])
FirstPos(S) == CHOOSE p \in S : \A q \in S : p = q \/ Before(p, q)
AllTokens(txt) ==
    UNION {{<<i, j>> : j \in 1..Len(txt[i])} : i \in 1..Len(txt)}
TokAt(txt, p) == txt[p[1]][p[2]]
TokensAt(txt, kinds) == {p \in AllTokens(txt) : TokAt(txt, p).k \in kinds}
NextTok(txt, p) ==
    LET after == {q \in AllTokens(txt) : Before(p, q)}
    IN  IF after = {} THEN NoPos ELSE FirstPos(after)

NoMatch == [found |-> FALSE, value |-> 0, capture |-> <<>>]
Found(v, c) == [found |-> TRUE, value |-> v, capture |-> c]

\* "if 1 <= rating <= 10"
RatingMin == 1
RatingMax == 10

\* The tokens (\d+)/10 matches: n/10 for a number n, and a run of n digits
\* (n > 2) before /10.  The number of a long run is above 10; its digit
\* count stands for it.
ScoreKinds == {"slash10", "slash10long"}
ScoreMatch(tok) == Found(tok.n, <<Piece(tok)>>)

\* int(match.group(1)): an interpreter that limits the digits of an
\* integer conversion (limited) raises ValueError above 4300 digits.
IntMaxStrDigits == 4300
IntRaises(m, limited) ==
    /\ limited
    /\ m.capture[1].tok.k = "slash10long"
    /\ m.capture[1].tok.n > IntMaxStrDigits

\* re.search of a pattern "keyword .*? (\d+)/10": the match starts at the
\* first keyword that has an n/10 after it on its line (. matches no
\* newline), and the group is the nearest such n.
KeywordThenScore(txt, kinds) ==
    LET scoreAfter(p) ==
            {j \in (p[2] + 1)..Len(txt[p[1]]) : txt[p[1]][j].k \in ScoreKinds}
        starts == {p \in TokensAt(txt, kinds) : scoreAfter(p) # {}}
    IN  IF starts = {} THEN NoMatch
        ELSE LET p == FirstPos(starts)
                 j == CHOOSE x \in scoreAfter(p) :
                         \A y \in scoreAfter(p) : x <= y
             IN  ScoreMatch(txt[p[1]][j])

\* re.search(r'(\d+)/10'): the first n/10 of the text.
FirstScore(txt) ==
    LET scores == TokensAt(txt, ScoreKinds)
    IN  IF scores = {} THEN NoMatch
        ELSE ScoreMatch(TokAt(txt, FirstPos(scores)))

\* rating_patterns, in the order of the list.  OVERALL ASSESSMENT holds
\* the word "overall".
RatingPatterns == <<"rate", "plain", "overall">>

RatingSearch(pattern, txt) ==
    CASE pattern = "rate" -> KeywordThenScore(txt, {"kw_rate"})
      [] pattern = "plain" -> FirstScore(txt)
      [] pattern = "overall" ->
            KeywordThenScore(txt, {"kw_overall", "heading"})

RECURSIVE RatingLoopStopsAtFirstMatch(_, _, _)
RatingLoopStopsAtFirstMatch(txt, i, rating) ==
    IF i > Len(RatingPatterns) THEN rating
    ELSE LET m == RatingSearch(RatingPatterns[i], txt)
         IN  IF ~m.found
             THEN RatingLoopStopsAtFirstMatch(txt, i + 1, rating)
             ELSE IF RatingMin <= m.value /\ m.value <= RatingMax
                  THEN <<m.value>>
                  ELSE <<>>

\* The for loop over rating_patterns from pattern i on, rating being the
\* value the variable holds: <<>> for None, <<n>> for n.
RECURSIVE RatingLoop(_, _, _)
RatingLoop(txt, i, rating) ==
    IF i > Len(RatingPatterns) THEN rating
    ELSE LET m == RatingSearch(RatingPatterns[i], txt)
         IN  IF ~m.found THEN RatingLoop(txt, i + 1, rating)
             ELSE IF RatingMin <= m.value /\ m.value <= RatingMax
                  THEN <<m.value>>
                  ELSE RatingLoop(txt, i + 1, <<>>)

ParseRating(txt) == RatingLoop(txt, 1, <<>>)

\* Whether the for loop over rating_patterns, from pattern i on, raises in
\* int(match.group(1)) before it ends.  rating is None then: the loop ends
\* at the first number in range, and a number out of range sets None.
RECURSIVE RatingRaises(_, _, _)
RatingRaises(txt, i, limited) ==
    IF i > Len(RatingPatterns) THEN FALSE
    ELSE LET m == RatingSearch(RatingPatterns[i], txt)
         IN  IF ~m.found THEN RatingRaises(txt, i + 1, limited)
             ELSE IF IntRaises(m, limited) THEN TRUE
             ELSE IF RatingMin <= m.value /\ m.value <= RatingMax THEN FALSE
             ELSE RatingRaises(txt, i + 1, limited)

\* "if len(summary) > 500: summary = summary[:497] + '...'"
SummaryMax == 500
SummaryKeep == 497

TruncateKeepsMax(s) ==
    IF StrLen(s) > SummaryMax
    THEN Take(s, SummaryMax) \o <<Piece(Tok("dots", 0))>>
    ELSE s

Truncate(s) ==
    IF StrLen(s) > SummaryMax
    THEN Take(s, SummaryKeep) \o <<Piece(Tok("dots", 0))>>
    ELSE s

\* (?:\n\n|\n2\.) right after line k.
TerminatorAfter(txt, k) ==
    \/ k + 2 <= Len(txt) /\ txt[k + 1] = <<>>
    \/ k + 1 <= Len(txt) /\ txt[k + 1] # <<>> /\ txt[k + 1][1].k = "two"

\* What follows "-\s*" at the dash d: the group (.+?) from the next token
\* to the end of the first line that a terminator follows.
SectionAfter(txt, d) ==
    LET s == NextTok(txt, d)
        ends == IF s = NoPos THEN {}
                ELSE {k \in s[1]..Len(txt) : TerminatorAfter(txt, k)}
    IN  IF ends = {} THEN NoMatch
        ELSE Found(0, SpanStr(txt, s[1], s[2],
                              CHOOSE k \in ends : \A y \in ends : k <= y))

\* r'OVERALL ASSESSMENT.*?-\s*(.+?)(?:\n\n|\n2\.)' with DOTALL.
SearchAssessment(txt) ==
    LET heads == TokensAt(txt, {"heading"})
        dashes == IF heads = {} THEN {}
                  ELSE {d \in TokensAt(txt, {"dash"}) :
                           /\ Before(FirstPos(heads), d)
                           /\ SectionAfter(txt, d).found}
    IN  IF dashes = {} THEN NoMatch ELSE SectionAfter(txt, FirstPos(dashes))

\* What follows "summary.*?:\s*" at the keyword p: the group (.+?) from
\* the next token to the end of its line, which a newline must follow.
LineAfter(txt, p) ==
    LET s == NextTok(txt, p)
    IN  IF s = NoPos \/ s[1] >= Len(txt) THEN NoMatch
        ELSE Found(0, SpanStr(txt, s[1], s[2], s[1]))

\* r'summary.*?:\s*(.+?)(?:\n\n|\n)' with DOTALL, the match starting after
\* position `from` (NoPos: anywhere).
SearchSummaryAfter(txt, from) ==
    LET keys == {p \in TokensAt(txt, {"kw_summary"}) :
                    Before(from, p) /\ LineAfter(txt, p).found}
    IN  IF keys = {} THEN NoMatch ELSE LineAfter(txt, FirstPos(keys))

\* r'overall.*?summary.*?:\s*(.+?)(?:\n\n|\n)' with DOTALL.
SearchOverallSummary(txt) ==
    LET starts == {o \in TokensAt(txt, {"kw_overall", "heading"}) :
                      SearchSummaryAfter(txt, o).found}
    IN  IF starts = {} THEN NoMatch
        ELSE SearchSummaryAfter(txt, FirstPos(starts))

\* summary_patterns, in the order of the list.
SummaryPatterns == <<"assessment", "overall_summary", "summary">>

SummarySearch(pattern, txt) ==
    CASE pattern = "assessment" -> SearchAssessment(txt)
      [] pattern = "overall_summary" -> SearchOverallSummary(txt)
      [] pattern = "summary" -> SearchSummaryAfter(txt, NoPos)

\* The for loop over summary_patterns: the first pattern that matches gives
\* the summary, stripped and cut; <<>> when none matches.
RECURSIVE SummaryLoop(_, _)
SummaryLoop(txt, i) ==
    IF i > Len(SummaryPatterns) THEN <<>>
    ELSE LET m == SummarySearch(SummaryPatterns[i], txt)
         IN  IF m.found THEN Truncate(Strip(m.capture))
             ELSE SummaryLoop(txt, i + 1)

\* "if not summary": the first three lines that are not blank and do not
\* start with #, joined by spaces and cut.
FallbackSummary(txt) ==
    LET content == SelectSeq(txt, LAMBDA line :
                        line # <<>> /\ line[1].k # "hash")
        first == SubSeq(content, 1, Min(3, Len(content)))
    IN  IF content = <<>> THEN <<>>
        ELSE Truncate(Join([i \in 1..Len(first) |-> LineStr(first[i])],
                           <<Piece(Space)>>))

ParseSummary(txt) ==
    IF SummaryLoop(txt, 1) # <<>> THEN SummaryLoop(txt, 1)
    ELSE FallbackSummary(txt)

\* parse_analysis: (rating, summary).
ParseAnalysisKeepsSummary(txt, limited) ==
    IF RatingRaises(txt, 1, limited)
    THEN [rating |-> <<>>, summary |-> ParseSummary(txt), raised |-> TRUE]
    ELSE [rating |-> ParseRating(txt), summary |-> ParseSummary(txt),
          raised |-> FALSE]

\* parse_analysis: (rating, summary).  An exception in the try leaves the
\* function through the except clause, which logs it, and the return gives
\* the two variables as they are: both None when the rating loop raises.
\* raised notes that the except clause was entered.
ParseAnalysis(txt, limited) ==
    IF RatingRaises(txt, 1, limited)
    THEN [rating |-> <<>>, summary |-> <<>>, raised |-> TRUE]
    ELSE [rating |-> ParseRating(txt), summary |-> ParseSummary(txt),
          raised |-> FALSE]

NoParsed == [done |-> FALSE, rating |-> <<>>, summary |-> <<>>,
             raised |-> FALSE]

----------------------------------------------------------------------------
(* Analysis Orchestrator: analyze_swing of app/routers/swings.py.  One     *)
(* request is handled at a time; an action is the code between two         *)
(* suspension points (await) of the handler.  The service method the       *)
(* router calls is ClaudeService.analyze_swing as the repository has it,   *)
(* which takes no trace argument and logs no step of its own.              *)

NoResponse == [status |-> 0, detail |-> <<>>, swing_id |-> 0]
NoPrompt == [positions |-> <<>>, history |-> <<>>, sections |-> <<>>]

IdleReq ==
    [pc |-> "idle", hdr |-> NoHeader, oid |-> 0, uploaded |-> <<>>,
     present |-> <<>>,
     files |-> <<>>, cursors |-> <<>>, encoded |-> <<>>, positions |-> <<>>, history |-> <<>>,
     history_failed |-> FALSE, parse_raised |-> FALSE,
     prompt |-> NoPrompt, content |-> <<>>, analysis |-> <<>>, rating |-> <<>>,
     summary |-> <<>>, swing_id |-> 0,
     exc |-> NoExc,
     response |-> NoResponse, calls |-> <<>>, store0 |-> {}]

\* The replies of the model and the causes of a failed call.
RatedAnalysis ==
    <<<<Tok("number", 1), Tok("heading", 0)>>,
      <<Tok("dash", 0), Tok("kw_rate", 0), Tok("slash10", 8)>>,
      <<Tok("dash", 0), Tok("word", 40)>>,
      <<Tok("two", 0), Tok("word", 8)>>>>
OverratedAnalysis ==
    <<<<Tok("kw_rate", 0), Tok("slash10", 15)>>, <<Tok("word", 600)>>>>
LongRatingAnalysis ==
    <<<<Tok("number", 1), Tok("heading", 0)>>,
      <<Tok("dash", 0), Tok("kw_rate", 0), Tok("slash10long", 4301)>>,
      <<Tok("dash", 0), Tok("word", 40)>>,
      <<Tok("two", 0), Tok("kw_overall", 0), Tok("slash10", 7)>>>>
Analyses == {RatedAnalysis, OverratedAnalysis, LongRatingAnalysis}
InferenceFailures == {<<"Connection error.">>}
StorageFailure(what) == Exc("OperationalError", <<what>>)

CheckUploadsAllowsNone(present) ==
    IF Len(present) > 4
    THEN HTTPException(400, <<"Maximum 4 images allowed">>)
    ELSE NoExc

\* The "if not uploaded_files" and "> 4" checks of the handler.
CheckUploads(present) ==
    IF present = <<>>
    THEN HTTPException(400, <<"At least one image is required for analysis">>)
    ELSE IF Len(present) > 4
         THEN HTTPException(400, <<"Maximum 4 images allowed">>)
         ELSE NoExc

\* The error text the except clauses log: "HTTP <code>: <detail>" for an
\* HTTPException, "<type>: <str(e)>" for any other exception.
ErrorText(e) ==
    IF e.type = "HTTPException"
    THEN <<"HTTP", ToString(e.status_code)>> \o e.msg
    ELSE <<e.type>> \o e.msg

FailedSessionNoLog(s, e) == FinalizeSession(s, FALSE)

\* The except clauses on the trace: the failed step, numbered one past the
\* last completed step, then finalize(success=False).
FailedSession(s, e) ==
    FinalizeSession(LogStep(s, s.steps_completed + 1, "failed", ErrorText(e)),
                    FALSE)

ErrorResponseAlways500(e) ==
    [status |-> 500, detail |-> <<"Failed to analyze swing">> \o e.msg,
     swing_id |-> 0]

\* The except clauses on the response: an HTTPException is re-raised as it
\* is, any other exception becomes a 500 whose detail wraps str(e).
ErrorResponse(e) ==
    IF e.type = "HTTPException"
    THEN [status |-> e.status_code, detail |-> e.msg, swing_id |-> 0]
    ELSE [status |-> 500, detail |-> <<"Failed to analyze swing">> \o e.msg,
          swing_id |-> 0]

\* The request after an exception e reached the except clauses.
FailReq(r, e) ==
    [r EXCEPT !.pc = "done", !.exc = e, !.response = ErrorResponse(e)]

FailTraceUnfinalized(e) ==
    /\ sess' = [sess EXCEPT ![req.oid] =
                  LogStep(@, @.steps_completed + 1, "failed", ErrorText(e))]
    /\ UNCHANGED <<ring, fin>>

\* The trace after an exception e reached the except clauses.
FailTrace(e) ==
    /\ sess' = [sess EXCEPT ![req.oid] = FailedSession(@, e)]
    /\ ring' = RingAppend(ring, req.oid)
    /\ fin' = Append(fin, req.oid)

RepeatOnce(tok, n) == [k \in 1..Min(n, 1) |-> tok]

\* The calls a loop of n iterations makes.
Repeat(tok, n) == [k \in 1..n |-> tok]

\* The index of the first file validate_image rejects, 0 when all pass.
FirstInvalid(fs) ==
    LET bad == {i \in DOMAIN fs : ValidateImage(fs[i]) # NoExc}
    IN  IF bad = {} THEN 0 ELSE CHOOSE i \in bad : \A j \in bad : i <= j

\* The orders in which a request may carry its image parts: none, one, two
\* and all four in the order of the form fields, and two, three and four
\* in another order.
UploadOrders ==
    {<<>>, <<"address">>, <<"impact">>, <<"address", "top">>, Positions,
     <<"top", "address">>, <<"impact", "address", "follow_through">>,
     <<"follow_through", "impact", "top", "address">>}

CollectUploadsInUploadOrder(order) == order

\* The form fields are bound to the four named parameters, and
\* uploaded_files lists the parameters that are not None in the order of
\* its dict literal.
CollectUploads(order) == SelectSeq(Positions, LAMBDA p : p \in Range(order))

\* Lines 53-97: the session is opened, step 4 logged, the uploads collected
\* and counted, step 5 started.
AnalyzeReceive(hdr, order) ==
    /\ req.pc \in {"idle", "done"}
    /\ nreq < MaxRequests
    /\ nreq' = nreq + 1
    /\ uuid' = IF hdr = NoHeader THEN uuid + 1 ELSE uuid
    /\ LET present == CollectUploads(order)
           oid == Len(sess) + 1
           s0 == LogStep(NewSession(RequestId(hdr, uuid)), 4, "completed", <<>>)
           r0 == [IdleReq EXCEPT !.hdr = hdr, !.oid = oid, !.uploaded = order,
                                 !.present = present, !.store0 = store]
           e == CheckUploads(present)
       IN  IF e # NoExc
           THEN /\ req' = FailReq(r0, e)
                /\ sess' = Append(sess, FailedSession(s0, e))
                /\ ring' = RingAppend(ring, oid)
                /\ fin' = Append(fin, oid)
           ELSE /\ req' = [r0 EXCEPT !.pc = "validating"]
                /\ sess' = Append(sess, LogStep(s0, 5, "started", <<>>))
                /\ UNCHANGED <<ring, fin>>
    /\ UNCHANGED <<storeVars, endpointVars, ringVars, nops>>
    /\ UNCHANGED parseVars

\* Lines 99-108: every file is validated in turn; the first rejection
\* raises, and the files after it are never read.  Then step 5 is
\* completed and step 6 started.
AnalyzeValidate ==
    /\ req.pc = "validating"
    /\ \E fs \in [1..Len(req.present) -> Uploads] :
          LET i == FirstInvalid(fs)
          IN  IF i # 0
              THEN /\ req' = FailReq([req EXCEPT !.files = SubSeq(fs, 1, i),
                                         !.cursors = [j \in 1..i |->
                                             CursorAfterValidate(fs[j], 0)],
                                         !.calls = @ \o Repeat("validate_image", i)],
                                     ValidateImage(fs[i]))
                   /\ FailTrace(ValidateImage(fs[i]))
              ELSE /\ req' = [req EXCEPT !.pc = "encoding", !.files = fs,
                                 !.cursors = [j \in 1..Len(fs) |->
                                     CursorAfterValidate(fs[j], 0)],
                                 !.calls = @ \o Repeat("validate_image", Len(fs))]
                   /\ sess' = [sess EXCEPT ![req.oid] =
                                 LogStep(LogStep(@, 5, "completed", <<>>),
                                         6, "started", <<>>)]
                   /\ UNCHANGED <<ring, fin>>
    /\ UNCHANGED <<storeVars, endpointVars, ringVars, nreq, uuid, nops>>
    /\ UNCHANGED parseVars

\* Lines 110-137 and the entry of the service method: every file is
\* encoded, step 6 completed, step 7 started.
AnalyzeEncode ==
    /\ req.pc = "encoding"
    /\ req' = [req EXCEPT
                 !.pc = "fetching",
                 !.encoded = [i \in 1..Len(req.files) |->
                                 [position |-> req.present[i],
                                  data |-> ImageToBase64WithType(
                                      req.files[i], req.cursors[i]).data,
                                  media_type |-> ImageToBase64WithType(
                                      req.files[i], req.cursors[i]).media_type]],
                 !.cursors = [i \in 1..Len(req.files) |->
                                 ImageToBase64WithType(
                                     req.files[i], req.cursors[i]).pos],
                 !.positions = req.present,
                 !.calls = @ \o Repeat("image_to_base64", Len(req.files))]
    /\ sess' = [sess EXCEPT ![req.oid] =
                  LogStep(LogStep(@, 6, "completed", <<>>), 7, "started", <<>>)]
    /\ UNCHANGED <<storeVars, endpointVars, ringVars, ring, fin, nreq, uuid, nops>>
    /\ UNCHANGED parseVars

GetRecentSwingsPropagates(st, fails) ==
    IF fails
    THEN {[exc |-> Exc("OperationalError", <<"select failed">>), rows |-> <<>>]}
    ELSE {[exc |-> NoExc, rows |-> rows] : rows \in DescPrefixes(st, RecentLimit)}

\* get_recent_swings: the three most recent rows, or [] when the query
\* raises (fails): the except clause returns the empty list.
GetRecentSwings(st, fails) ==
    IF fails
    THEN {[exc |-> NoExc, rows |-> <<>>]}
    ELSE {[exc |-> NoExc, rows |-> rows] : rows \in DescPrefixes(st, RecentLimit)}

\* history_lines of _build_analysis_prompt: one entry for each swing of the
\* history, with its date and "Rating: n/10" or "Not rated".
HistoryLines(history) ==
    [i \in 1..Len(history) |->
        [n |-> i, date |-> history[i].created_at,
         rating_info |-> IF history[i].rating # <<>>
                         THEN <<"Rating", history[i].rating[1]>>
                         ELSE <<"Not rated", 0>>]]

\* _build_analysis_prompt: the positions, the history section when there
\* is a history, the four sections of the structure, and the progression
\* section when there is a history.
BuildAnalysisPrompt(positions, history) ==
    [positions |-> positions,
     history |-> IF Len(history) > 0 THEN HistoryLines(history) ELSE <<>>,
     sections |-> <<"1. OVERALL ASSESSMENT", "2. POSITION ANALYSIS",
                    "3. SPECIFIC ISSUES", "4. RECOMMENDATIONS">>
                  \o (IF Len(history) > 0
                      THEN <<"5. PROGRESSION ANALYSIS">> ELSE <<>>)]

\* str.upper of a position name.
Upper(p) ==
    CASE p = "address" -> "ADDRESS"
      [] p = "top" -> "TOP"
      [] p = "impact" -> "IMPACT"
      [] p = "follow_through" -> "FOLLOW_THROUGH"

PositionBlocksImageFirst(e) ==
    <<[type |-> "image", text |-> <<>>, media_type |-> e.media_type,
       data |-> e.data],
      [type |-> "text", text |-> <<"[", Upper(e.position), " POSITION]">>,
       media_type |-> "", data |-> <<>>]>>

\* The pair of blocks of one position: its label "[POSITION POSITION]" and
\* its image, with the media type of media_types.
PositionBlocks(e) ==
    <<[type |-> "text", text |-> <<"[", Upper(e.position), " POSITION]">>,
       media_type |-> "", data |-> <<>>],
      [type |-> "image", text |-> <<>>, media_type |-> e.media_type,
       data |-> e.data]>>

\* ClaudeService.analyze_swing, the content list: for every position of
\* positions that has an image, its label and its image; then the prompt.
RECURSIVE ImageBlocks(_, _)
ImageBlocks(positions, encoded) ==
    IF positions = <<>> THEN <<>>
    ELSE LET here == {e \in Range(encoded) : e.position = Head(positions)}
         IN  (IF here = {} THEN <<>>
              ELSE PositionBlocks(CHOOSE e \in here : TRUE))
             \o ImageBlocks(Tail(positions), encoded)

BuildContent(positions, encoded, prompt) ==
    Append(ImageBlocks(positions, encoded),
           [type |-> "text", text |-> <<"prompt", prompt.positions>>,
            media_type |-> "", data |-> <<>>])

\* The router passes the session as a sixth positional argument to
\* claude_service.analyze_swing; the method as listed takes five and
\* rejects the call before its body runs.
ServiceCallRejected ==
    Exc("TypeError", <<"analyze_swing() takes from 3 to 6 positional arguments but 7 were given">>)

\* The call of ClaudeService.analyze_swing and the method up to the call of
\* the model.  Either the call is rejected for its sixth argument, which
\* the router's except clause receives, or (with the service the router is
\* written against, which takes the session) the body runs: the history is
\* fetched, the prompt and the content blocks are built.
AnalyzeFetchHistory ==
    /\ req.pc = "fetching"
    /\ \/ /\ req' = FailReq(req, ServiceCallRejected)
          /\ FailTrace(ServiceCallRejected)
       \/ \E fails \in BOOLEAN : \E out \in GetRecentSwings(store, fails) :
             IF out.exc # NoExc
             THEN LET e == Exc("Exception",
                               <<"Failed to analyze swing">> \o out.exc.msg)
                  IN  /\ req' = FailReq([req EXCEPT
                                           !.history_failed = fails,
                                           !.calls = Append(@, "get_recent_swings")],
                                        e)
                      /\ FailTrace(e)
             ELSE /\ req' = [req EXCEPT
                               !.pc = "calling", !.history = out.rows,
                               !.history_failed = fails,
                               !.prompt = BuildAnalysisPrompt(req.positions,
                                                              out.rows),
                               !.content = BuildContent(req.positions,
                                   req.encoded,
                                   BuildAnalysisPrompt(req.positions, out.rows)),
                               !.calls = Append(@, "get_recent_swings")]
                  /\ UNCHANGED <<sess, ring, fin>>
    /\ UNCHANGED <<storeVars, endpointVars, ringVars, nreq, uuid, nops>>
    /\ UNCHANGED parseVars

InferenceErrorSwallowed(r, cause) ==
    [r EXCEPT !.pc = "committing", !.analysis = <<>>,
              !.calls = @ \o <<"messages.create", "raised", "create_swing">>]

\* The request after the call of the model raised: the service wraps the
\* cause in Exception("Failed to analyze swing: ..."), which the router's
\* except clause receives.  calls notes the call and that it raised.
InferenceError(r, cause) ==
    FailReq([r EXCEPT !.calls = @ \o <<"messages.create", "raised">>],
            Exc("Exception", <<"Failed to analyze swing">> \o cause))

\* The call of the model.  When it returns, the router logs steps 10 and
\* 11, parses, logs step 12 and enters create_swing up to its commit.
AnalyzeCallModel ==
    /\ req.pc = "calling"
    /\ \/ \E cause \in InferenceFailures :
             /\ req' = InferenceError(req, cause)
             /\ FailTrace(req'.exc)
       \/ \E a \in Analyses, limited \in BOOLEAN :
             /\ req' = [req EXCEPT !.pc = "committing", !.analysis = a,
                           !.rating = ParseAnalysis(a, limited).rating,
                           !.summary = ParseAnalysis(a, limited).summary,
                           !.parse_raised = ParseAnalysis(a, limited).raised,
                           !.calls = @ \o <<"messages.create",
                                            "parse_analysis", "create_swing">>]
             /\ sess' = [sess EXCEPT ![req.oid] =
                           LogStep(LogStep(LogStep(LogStep(@,
                               10, "completed", <<>>), 11, "started", <<>>),
                               11, "completed", <<>>), 12, "started", <<>>)]
             /\ UNCHANGED <<ring, fin>>
    /\ UNCHANGED <<storeVars, endpointVars, ringVars, nreq, uuid, nops>>
    /\ UNCHANGED parseVars

\* images_base64 as the record keeps it: position -> encoded bytes.
ImagesOf(encoded) ==
    [p \in {encoded[i].position : i \in 1..Len(encoded)} |->
        (CHOOSE x \in Range(encoded) : x.position = p).data]

\* create_swing, db.add and db.commit: the row is inserted, or the commit
\* raises and the except clause rolls the insert back.
AnalyzeCommit ==
    /\ req.pc = "committing"
    /\ \/ /\ req' = FailReq(req, StorageFailure("commit failed"))
          /\ FailTrace(StorageFailure("commit failed"))
          /\ UNCHANGED <<store, seq, created>>
       \/ LET row == NewSwing(backend, store, seq, clock, ImagesOf(req.encoded),
                              req.analysis, req.positions, req.rating,
                              req.summary)
          IN  /\ store' = store \cup {row}
              /\ seq' = IF backend = "postgresql" THEN seq + 1 ELSE seq
              /\ created' = Append(created, row.id)
              /\ req' = [req EXCEPT !.pc = "refreshing", !.swing_id = row.id]
              /\ UNCHANGED <<sess, ring, fin>>
    /\ UNCHANGED <<backend, clock, endpointVars, ringVars, nreq, uuid, nops>>
    /\ UNCHANGED parseVars

\* create_swing, db.refresh, and the rest of the handler: when the refresh
\* raises, rollback finds nothing to undo, the commit having ended the
\* transaction.  Otherwise steps 12 and 13 are completed, the session is
\* finalized and the response built.
AnalyzeRefresh ==
    /\ req.pc = "refreshing"
    /\ \/ /\ req' = FailReq(req, StorageFailure("refresh failed"))
          /\ FailTrace(StorageFailure("refresh failed"))
       \/ /\ req' = [req EXCEPT !.pc = "done",
                        !.response = [status |-> 200,
                                      detail |-> <<"Swing analyzed successfully">>,
                                      swing_id |-> req.swing_id]]
          /\ sess' = [sess EXCEPT ![req.oid] =
                        FinalizeSession(LogStep(LogStep(@,
                            12, "completed", <<>>), 13, "completed", <<>>), TRUE)]
          /\ ring' = RingAppend(ring, req.oid)
          /\ fin' = Append(fin, req.oid)
    /\ UNCHANGED <<storeVars, endpointVars, ringVars, nreq, uuid, nops>>
    /\ UNCHANGED parseVars

\* The database clock moves on.
Tick ==
    /\ clock < MaxClock
    /\ clock' = clock + 1
    /\ UNCHANGED <<backend, store, seq, created, req, nreq, traceVars,
                   endpointVars, ringVars, nops>>
    /\ UNCHANGED parseVars

----------------------------------------------------------------------------
(* The History Store endpoints of app/routers/swings.py.  Each handler      *)
(* leaves its answer in its own variable and clears the answers of the      *)
(* others: an answer is read in the state its handler produced.             *)

NoHist == [limit |-> 0, offset |-> 0, qlimit |-> 0, qoffset |-> 0,
           status |-> 0, ids |-> <<>>, thumbs |-> <<>>, total |-> 0]
NoGot == [id |-> 0, status |-> 0, rows |-> {}]
NoDeleted == [id |-> 0, status |-> 0, step |-> "none", removed |-> FALSE,
              present0 |-> FALSE, before |-> {}]
IdleDel == [pc |-> "idle", id |-> 0, present0 |-> FALSE]
DelSlots == {1, 2}

\* The query parameters and ids the callers try.
LimitArgs == {0, 2, 101}
OffsetArgs == {-1, 0, 1}
IdArgs == {1, 2, MaxCreates}

\* The pages asked for: every limit from the start, and the page of two at
\* every offset.
HistoryArgs == {a \in LimitArgs \X OffsetArgs : a[1] = 2 \/ a[2] = 0}

\* The payloads the records are created with: every other record holds a
\* payload that was accepted at upload and that PIL cannot decode in full.
StoredPayloads(n) ==
    IF n % 2 = 0 THEN {<<"b64", "cut">>} ELSE {<<"b64", "jpg">>}

\* create_swing as the analyze handler leaves it on success: one row
\* inserted and committed.
CreateSwing(positions, payload) ==
    /\ Len(created) < MaxCreates
    /\ LET row == NewSwing(backend, store, seq, clock,
                           [p \in Range(positions) |-> payload],
                           RatedAnalysis, positions,
                           ParseAnalysis(RatedAnalysis, TRUE).rating,
                           ParseAnalysis(RatedAnalysis, TRUE).summary)
       IN  /\ store' = store \cup {row}
           /\ created' = Append(created, row.id)
    /\ seq' = IF backend = "postgresql" THEN seq + 1 ELSE seq
    /\ hist' = NoHist /\ got' = NoGot /\ deleted' = NoDeleted
    /\ UNCHANGED <<backend, clock, req, nreq, traceVars, ringVars, del,
                   confirmed, ndel, nops>>
    /\ UNCHANGED parseVars

\* get_swing_history, "Validate and cap limit".
ClampLimit(limit) ==
    IF limit > HistoryLimitMax THEN HistoryLimitMax
    ELSE IF limit < HistoryLimitMin THEN HistoryLimitMin ELSE limit

\* get_swing_history: the offset goes to the query as the caller gave it.
PassOffset(offset) == offset

IdsOf(rows) == [i \in 1..Len(rows) |-> rows[i].id]

\* create_thumbnail: b64decode, Image.open, thumbnail, save or b64encode
\* raises on a payload that is not a whole image.
ThumbnailFails(payload) == payload[2] \notin {"jpg", "gif", "big"}

CreateThumbnailRaises(payload) ==
    IF ThumbnailFails(payload) THEN [raised |-> TRUE, value |-> payload]
    ELSE [raised |-> FALSE, value |-> <<"thumb", payload[2]>>]

\* create_thumbnail: the whole body is in a try whose except returns the
\* input.
CreateThumbnail(payload) ==
    IF ThumbnailFails(payload) THEN [raised |-> FALSE, value |-> payload]
    ELSE [raised |-> FALSE, value |-> <<"thumb", payload[2]>>]

NoThumbnail == [raised |-> FALSE, value |-> <<>>]

\* swing_to_history_item: the thumbnail of the first analysed position, when
\* the record holds an image for it.
SwingToHistoryItem(row) ==
    LET first_position == row.positions_analyzed[1]
    IN  IF DOMAIN row.images # {} /\ first_position \in DOMAIN row.images
        THEN CreateThumbnail(row.images[first_position])
        ELSE NoThumbnail

HistoryItems(rows) == [i \in 1..Len(rows) |-> SwingToHistoryItem(rows[i])]
ItemRaises(items) == \E i \in DOMAIN items : items[i].raised
ThumbsOf(items) == [i \in DOMAIN items |-> items[i].value]

\* GET /history: the limit is clamped, get_all_swings and get_swing_count
\* are run, and the rows are answered; a query that raises becomes a 500.
GetSwingHistory(limit, offset) ==
    /\ LET ql == ClampLimit(limit)
           qo == PassOffset(offset)
           failed == [limit |-> limit, offset |-> offset, qlimit |-> ql,
                      qoffset |-> qo, status |-> 500, ids |-> <<>>,
                      thumbs |-> <<>>, total |-> 0]
       IN  IF QueryRaises(backend, ql, qo)
           THEN hist' = failed
           ELSE \E o \in DescOrders(store) :
                   LET rows == LimitOffset(o, ql, qo)
                       items == HistoryItems(rows)
                   IN  IF ItemRaises(items)
                       THEN hist' = failed
                       ELSE hist' = [limit |-> limit, offset |-> offset,
                                     qlimit |-> ql, qoffset |-> qo,
                                     status |-> 200, ids |-> IdsOf(rows),
                                     thumbs |-> ThumbsOf(items),
                                     total |-> Cardinality(store)]
    /\ got' = NoGot /\ deleted' = NoDeleted
    /\ UNCHANGED <<storeVars, req, nreq, traceVars, ringVars, del, confirmed,
                   ndel, nops>>
    /\ UNCHANGED parseVars

\* GET /{swing_id}: 404 when get_swing_by_id finds no row.
GetSwing(id) ==
    /\ got' = [id |-> id,
               status |-> IF GetSwingById(store, id) = {} THEN 404 ELSE 200,
               rows |-> GetSwingById(store, id)]
    /\ hist' = NoHist /\ deleted' = NoDeleted
    /\ UNCHANGED <<storeVars, req, nreq, traceVars, ringVars, del, confirmed,
                   ndel, nops>>
    /\ UNCHANGED parseVars

DeleteLookupMissesNever(st, id) == FALSE

\* delete_swing of the router, "if not swing" after get_swing_by_id.
DeleteLookupMisses(st, id) == GetSwingById(st, id) = {}

\* DELETE /{swing_id} up to the call of the service: 404 when the lookup
\* finds no row.  present0 notes whether the id was in the store then,
\* before whether it was when the answer was made.  A request is served
\* in the lowest slot that is free.
DeleteLookup(s, id) ==
    /\ del[s].pc = "idle"
    /\ \A z \in DelSlots : z < s => del[z].pc # "idle"
    /\ IF DeleteLookupMisses(store, id)
       THEN /\ deleted' = [id |-> id, status |-> 404, step |-> "lookup",
                           removed |-> FALSE, present0 |-> id \in Ids(store),
                           before |-> store]
            /\ del' = del
       ELSE /\ del' = [del EXCEPT ![s] = [pc |-> "deleting", id |-> id,
                                         present0 |-> id \in Ids(store)]]
            /\ deleted' = NoDeleted
    /\ hist' = NoHist /\ got' = NoGot
    /\ UNCHANGED <<storeVars, req, nreq, traceVars, ringVars, confirmed, ndel,
                   nops>>
    /\ UNCHANGED parseVars

\* SwingService.delete_swing: the rows it deletes and commits, none when
\* its own select finds none (it then returns False).
DeleteRows(st, id) == {r \in st : r.id = id}

\* The rest of DELETE /{swing_id}: the service deletes the row if its own
\* select still finds it, and the router answers the confirmation whatever
\* the service returned; a commit that raises is rolled back and becomes a
\* 500.
DeleteRemove(s) ==
    /\ del[s].pc = "deleting"
    /\ del' = [del EXCEPT ![s] = IdleDel]
    /\ LET id == del[s].id
           rows == DeleteRows(store, id)
       IN  \/ /\ store' = store \ rows
              /\ ndel' = ndel + Cardinality(rows)
              /\ confirmed' = confirmed \cup {id}
              /\ deleted' = [id |-> id, status |-> 200, step |-> "remove",
                             removed |-> rows # {},
                             present0 |-> del[s].present0, before |-> store]
           \/ /\ rows # {}
              /\ deleted' = [id |-> id, status |-> 500, step |-> "remove",
                             removed |-> FALSE,
                             present0 |-> del[s].present0, before |-> store]
              /\ UNCHANGED <<store, ndel, confirmed>>
    /\ hist' = NoHist /\ got' = NoGot
    /\ UNCHANGED <<backend, seq, clock, created, req, nreq, traceVars,
                   ringVars, nops>>
    /\ UNCHANGED parseVars

NextStore ==
    \/ Tick
    \/ \E positions \in {<<"address">>}, payload \in StoredPayloads(Len(created)) :
          CreateSwing(positions, payload)
    \/ \E a \in HistoryArgs : GetSwingHistory(a[1], a[2])
    \/ \E id \in IdArgs : GetSwing(id)
    \/ \E s \in DelSlots, id \in IdArgs : DeleteLookup(s, id)
    \/ \E s \in DelSlots : DeleteRemove(s)

----------------------------------------------------------------------------
(* The Trace Recorder's interface, called in any order on the session      *)
(* objects the callers hold.  The ring starts with the sessions of earlier *)
(* requests in it.                                                         *)

NoLook == [op |-> "none", arg |-> NoHeader, found |-> 0, limit |-> 0,
           sessions |-> <<>>]

\* The session an earlier request left: opened, one step, finalized.
EarlierSession(i) ==
    FinalizeSession(LogStep(NewSession(Uuid4(i - 1)), 4, "completed", <<>>),
                    TRUE)

\* The session an earlier request that sent a request identifier left.
EarlierClientSession(hdr) ==
    FinalizeSession(LogStep(NewSession(RequestId(hdr, 0)), 4, "completed", <<>>),
                    TRUE)

Prefills == {0, 1, RingCapacity - 1, RingCapacity}

\* DebugLogger(request_id=hdr)
RingNew(hdr) ==
    /\ nops < MaxRingOps
    /\ nops' = nops + 1
    /\ sess' = Append(sess, NewSession(RequestId(hdr, uuid)))
    /\ uuid' = IF hdr = NoHeader THEN uuid + 1 ELSE uuid
    /\ held' = held \cup {Len(sess) + 1}
    /\ look' = NoLook
    /\ UNCHANGED <<storeVars, endpointVars, req, nreq, ring, fin>>
    /\ UNCHANGED parseVars

\* debug.log_step(n, status, error=err)
RingLogStep(o, n, status, err) ==
    /\ nops < MaxRingOps
    /\ nops' = nops + 1
    /\ sess' = [sess EXCEPT ![o] = LogStep(@, n, status, err)]
    /\ look' = NoLook
    /\ UNCHANGED <<storeVars, endpointVars, req, nreq, ring, uuid, fin, held>>
    /\ UNCHANGED parseVars

\* debug.finalize(success): the metadata is stamped and the session put
\* into the ring.
RingFinalize(o, success) ==
    /\ nops < MaxRingOps
    /\ nops' = nops + 1
    /\ sess' = [sess EXCEPT ![o] = FinalizeSession(@, success)]
    /\ ring' = RingAppend(ring, o)
    /\ fin' = Append(fin, o)
    /\ look' = NoLook
    /\ UNCHANGED <<storeVars, endpointVars, req, nreq, uuid, held>>
    /\ UNCHANGED parseVars

\* The identifiers a reader asks for: the two oldest ever issued, those of
\* the sessions the callers hold, a client's, and one never issued.
LookupArgs ==
    {Uuid4(0), Uuid4(1), Uuid4(uuid)} \cup ClientIds
        \cup {sess[o].request_id : o \in held}

\* DebugLogger.get_session_by_id(rid)
RingGetById(rid) ==
    /\ nops < MaxRingOps
    /\ nops' = nops + 1
    /\ look' = [NoLook EXCEPT !.op = "by_id", !.arg = rid,
                               !.found = GetSessionById(ring, sess, rid)]
    /\ UNCHANGED <<storeVars, endpointVars, req, nreq, traceVars, held>>
    /\ UNCHANGED parseVars

\* s[start:] of Python: a negative start counts from the end.
SliceFrom(s, start) ==
    LET from == IF start < 0
                THEN (IF Len(s) + start < 0 THEN 0 ELSE Len(s) + start)
                ELSE Min(start, Len(s))
    IN  SubSeq(s, from + 1, Len(s))

\* DebugLogger.get_recent_sessions(limit): sessions[-limit:].
GetRecentSessions(r, limit) == SliceFrom(r, -limit)

\* get_recent_debug_sessions: "if limit > 50: limit = 50".
DebugLimitMax == 50
CapLimit(limit) == IF limit > DebugLimitMax THEN DebugLimitMax ELSE limit

\* The limits a reader asks for.
RecentArgs == {-1, 0, 1, 2, 50, 51}

\* GET /api/debug/sessions?limit=
RingGetRecent(limit) ==
    /\ nops < MaxRingOps
    /\ nops' = nops + 1
    /\ look' = [NoLook EXCEPT !.op = "recent", !.limit = limit,
                               !.sessions =
                                   GetRecentSessions(ring, CapLimit(limit))]
    /\ UNCHANGED <<storeVars, endpointVars, req, nreq, traceVars, held>>
    /\ UNCHANGED parseVars

NextRing ==
    \/ \E hdr \in {NoHeader} \cup ClientIds : RingNew(hdr)
    \/ \E o \in held, status \in {"started", "completed", "failed"},
          err \in {<<>>, <<"boom">>} : RingLogStep(o, 5, status, err)
    \/ \E o \in held, success \in BOOLEAN : RingFinalize(o, success)
    \/ \E rid \in LookupArgs : RingGetById(rid)
    \/ \E limit \in RecentArgs : RingGetRecent(limit)

----------------------------------------------------------------------------

Init ==
    /\ backend \in {"sqlite", "postgresql"}
    /\ store = {}
    /\ seq = 0
    /\ clock = 0
    /\ req = IdleReq
    /\ nreq = 0
    /\ sess = <<>>
    /\ ring = <<>>
    /\ uuid = 0
    /\ fin = <<>>
    /\ held = {}
    /\ created = <<>>
    /\ hist = NoHist
    /\ got = NoGot
    /\ del = [s \in DelSlots |-> IdleDel]
    /\ deleted = NoDeleted
    /\ confirmed = {}
    /\ ndel = 0
    /\ nops = 0
    /\ look = NoLook
    /\ text = <<>>
    /\ parsed = NoParsed

Next ==
    \/ \E hdr \in {NoHeader} \cup ClientIds, order \in UploadOrders :
          AnalyzeReceive(hdr, order)
    \/ AnalyzeValidate
    \/ AnalyzeEncode
    \/ AnalyzeFetchHistory
    \/ AnalyzeCallModel
    \/ AnalyzeCommit
    \/ AnalyzeRefresh

Spec == Init /\ [][Next]_vars

SpecStore == Init /\ [][NextStore]_vars

InitRing ==
    /\ backend \in {"sqlite"}
    /\ store = {}
    /\ seq = 0
    /\ clock = 0
    /\ req = IdleReq
    /\ nreq = 0
    /\ \E p \in Prefills, c \in {NoHeader} \cup ClientIds :
          /\ c # NoHeader => p >= 1
          /\ sess = [i \in 1..p |-> IF i = 1 /\ c # NoHeader
                                     THEN EarlierClientSession(c)
                                     ELSE EarlierSession(i)]
          /\ ring = [i \in 1..p |-> i]
          /\ fin = [i \in 1..p |-> i]
          /\ uuid = p
    /\ held = {}
    /\ created = <<>>
    /\ hist = NoHist
    /\ got = NoGot
    /\ del = [s \in DelSlots |-> IdleDel]
    /\ deleted = NoDeleted
    /\ confirmed = {}
    /\ ndel = 0
    /\ nops = 0
    /\ look = NoLook
    /\ text = <<>>
    /\ parsed = NoParsed

SpecRing == InitRing /\ [][NextRing]_vars

----------------------------------------------------------------------------
(* parse_analysis on its own, over the texts of at most MaxLines lines.    *)
(* In these lines a dash and "Summary:" are followed by text on the same   *)
(* line, as in the replies the prompt asks for.                            *)

ParseLines ==
    {<<>>,
     <<Tok("number", 1), Tok("heading", 0)>>,
     <<Tok("dash", 0), Tok("kw_rate", 0), Tok("slash10", 8)>>,
     <<Tok("kw_rate", 0), Tok("slash10", 15), Tok("slash10", 9)>>,
     <<Tok("kw_overall", 0), Tok("slash10", 7)>>,
     <<Tok("slash10", 0), Tok("word", 4)>>,
     <<Tok("kw_rate", 0), Tok("slash10long", 4301)>>,
     <<Tok("two", 0), Tok("word", 8)>>,
     <<Tok("hash", 0), Tok("word", 5)>>}
    \cup {<<Tok("dash", 0), Tok("word", n)>> : n \in {500, 501, 600}}
    \cup {<<Tok("kw_summary", 0), Tok("word", n)>> : n \in {3, 501}}
    \cup {<<Tok("word", n)>> : n \in {250, 500}}

ParseTexts == UNION {[1..n -> ParseLines] : n \in 0..MaxLines}

\* rating, summary = claude_service.parse_analysis(text)
ParseText ==
    /\ ~parsed.done
    /\ \E limited \in BOOLEAN :
          parsed' = [done |-> TRUE,
                     rating |-> ParseAnalysis(text, limited).rating,
                     summary |-> ParseAnalysis(text, limited).summary,
                     raised |-> ParseAnalysis(text, limited).raised]
    /\ UNCHANGED <<storeVars, traceVars, endpointVars, ringVars, req, nreq,
                   nops, text>>

InitParse ==
    /\ backend = "sqlite"
    /\ store = {}
    /\ seq = 0
    /\ clock = 0
    /\ req = IdleReq
    /\ nreq = 0
    /\ sess = <<>>
    /\ ring = <<>>
    /\ uuid = 0
    /\ fin = <<>>
    /\ held = {}
    /\ created = <<>>
    /\ hist = NoHist
    /\ got = NoGot
    /\ del = [s \in DelSlots |-> IdleDel]
    /\ deleted = NoDeleted
    /\ confirmed = {}
    /\ ndel = 0
    /\ nops = 0
    /\ look = NoLook
    /\ text \in ParseTexts
    /\ parsed = NoParsed

NextParse == ParseText

SpecParse == InitParse /\ [][NextParse]_vars

----------------------------------------------------------------------------
(* The analyze request of a golfer who has a history: the store starts     *)
(* with the records of k earlier successful requests, made within one tick *)
(* of the database clock or one tick apart.                                *)

RECURSIVE PriorStore(_, _, _)
PriorStore(be, k, spaced) ==
    IF k = 0 THEN {}
    ELSE LET st == PriorStore(be, k - 1, spaced)
             a == IF k % 2 = 0 THEN OverratedAnalysis ELSE RatedAnalysis
         IN  st \cup {NewSwing(be, st, k - 1, IF spaced THEN k ELSE 0,
                               [p \in {"address"} |-> <<"b64", "jpg">>],
                               a, <<"address">>,
                               ParseAnalysis(a, TRUE).rating,
                               ParseAnalysis(a, TRUE).summary)}

InitPrompt ==
    /\ backend \in {"sqlite", "postgresql"}
    /\ \E k \in 0..MaxPrior, spaced \in BOOLEAN :
          /\ store = PriorStore(backend, k, spaced)
          /\ seq = IF backend = "postgresql" THEN k ELSE 0
          /\ clock = IF spaced THEN k ELSE 0
          /\ created = [i \in 1..k |-> i]
    /\ req = IdleReq
    /\ nreq = 0
    /\ sess = <<>>
    /\ ring = <<>>
    /\ uuid = 0
    /\ fin = <<>>
    /\ held = {}
    /\ hist = NoHist
    /\ got = NoGot
    /\ del = [s \in DelSlots |-> IdleDel]
    /\ deleted = NoDeleted
    /\ confirmed = {}
    /\ ndel = 0
    /\ nops = 0
    /\ look = NoLook
    /\ text = <<>>
    /\ parsed = NoParsed

\* The requests of SpecPrompt: one upload or two, with no identifier of
\* the client's.
PromptOrders == {<<"address">>, <<"top", "address">>}

NextPrompt ==
    \/ \E order \in PromptOrders : AnalyzeReceive(NoHeader, order)
    \/ AnalyzeValidate
    \/ AnalyzeEncode
    \/ AnalyzeFetchHistory
    \/ AnalyzeCallModel
    \/ AnalyzeCommit
    \/ AnalyzeRefresh

SpecPrompt == InitPrompt /\ [][NextPrompt]_vars

----------------------------------------------------------------------------
(* Claims about the analyze request (Spec). *)

Called(tok) == tok \in Range(req.calls)
Done == req.pc = "done"
Session == sess[req.oid]

\* What the Image Validator's contract rejects: a content type outside the
\* allow-list, a size over the ceiling, bytes that do not decode.
Rejected(file) ==
    \/ file.content_type \notin {"image/jpeg", "image/png", "image/jpg"}
    \/ file.size_mb > 5
    \/ ~file.decodable

AnyRejected == \E i \in DOMAIN req.files : Rejected(req.files[i])

\* C1: when an uploaded image fails validation, the request makes no
\* inference call and creates no record, and it ends with status 400; an
\* inference call is made only after every uploaded image was validated and
\* passed.
C1_ValidationBeforeInference ==
    /\ AnyRejected =>
          /\ ~Called("messages.create")
          /\ ~Called("create_swing")
          /\ store = req.store0
          /\ req.pc \in {"validating", "done"}
          /\ Done => req.response.status = 400
    /\ Called("messages.create") =>
          /\ Len(req.files) = Len(req.present)
          /\ \A i \in DOMAIN req.files : ~Rejected(req.files[i])
          /\ \A k \in 1..Len(req.present) : req.calls[k] = "validate_image"

\* A request whose second image is rejected after its first passed has
\* ended with 400.
C1_Witness ==
    /\ Done
    /\ Len(req.files) >= 2
    /\ ~Rejected(req.files[1])
    /\ Rejected(req.files[2])
    /\ req.response.status = 400

\* C2: when the inference call of a request raised, the request never
\* calls create_swing and the store holds what it held when the request
\* came in.
C2_FailedInferenceCreatesNothing ==
    Called("raised") =>
        /\ ~Called("create_swing")
        /\ req.swing_id = 0
        /\ store = req.store0
        /\ \A i \in DOMAIN created : created[i] \in Ids(req.store0)

\* A request has ended after its inference call raised.
C2_Witness ==
    /\ Done
    /\ Called("messages.create")
    /\ Called("raised")
    /\ req.response.status = 500

\* C3: when create_swing raised, at the commit or at the refresh, the store
\* holds exactly the rows it held before the call and the request ends
\* with status 500.
C3_FailedCreateLeavesNoRecord ==
    (Done /\ req.exc.type = "OperationalError") =>
        /\ store = req.store0
        /\ req.response.status = 500

\* C4: a request without an image ends with 400, having made no inference
\* call and created no record; a request no stage of which raised ends with
\* 200 and the id of the one record it created; a request whose inference
\* call or whose create_swing raised ends with 500.
C4_StatusByOutcome ==
    /\ req.present = <<>> /\ req.pc # "idle" =>
          /\ Done
          /\ req.response.status = 400
          /\ req.calls = <<>>
          /\ store = req.store0
    /\ Done /\ req.exc = NoExc =>
          /\ req.response.status = 200
          /\ req.response.swing_id = req.swing_id
          /\ req.response.swing_id \notin Ids(req.store0)
          /\ \E r \in store : /\ r.id = req.response.swing_id
                              /\ store = req.store0 \cup {r}
                              /\ r.analysis = req.analysis
    /\ Done /\ (Called("raised") \/ req.exc.type = "OperationalError") =>
          req.response.status = 500
    /\ req.response.status \in {0, 200, 400, 500}
    /\ req.response.status = 200 => req.exc = NoExc /\ Called("create_swing")

\* A request has ended with 200 and the id of a record of the store.
C4_Witness ==
    /\ Done
    /\ req.response.status = 200
    /\ req.response.swing_id \in Ids(store)
    /\ Len(req.present) = 2

\* The failed step event that closes the session of the request.
LastStep == Session.steps[Len(Session.steps)]

FailureTraced ==
    /\ Session.status = "failed"
    /\ Len(Session.steps) >= 2
    /\ LastStep.status = "failed"
    /\ Carries(LastStep.error, req.exc.msg)
    /\ Len(req.exc.msg) > 0
    /\ Session.error_count = 1
    /\ Session.errors[1].error = LastStep.error
    /\ Len(ring) > 0 /\ ring[Len(ring)] = req.oid
    /\ Carries(req.response.detail, req.exc.msg)

\* C6 as stated: every request that raised has its failure in the trace as
\* a failed step carrying the error text, its session finalized as failed,
\* and ends with a 500 carrying the error text.
C6_EveryFailureEndsWith500 ==
    (Done /\ req.exc # NoExc) => (FailureTraced /\ req.response.status = 500)

\* C6, amended: every request that raised has its failure in the trace as a
\* failed step carrying the error text, its session finalized as failed and
\* in the ring, and ends with a response carrying the error text: a 500,
\* unless what was raised is an HTTPException (no image, a rejected
\* upload), whose own status, 400, is the response's.
C6_FailureTracedThenReported ==
    /\ (Done /\ req.exc # NoExc) =>
          /\ FailureTraced
          /\ req.response.status =
                IF req.exc.type = "HTTPException" THEN 400 ELSE 500
    /\ (req.pc # "idle" /\ ~Done) =>
          /\ Session.status = "in_progress"
          /\ req.oid \notin Range(ring)
          /\ Session.errors = <<>>

\* A request has ended with 500 after its commit raised, and one with 400.
C6_Witness ==
    /\ Done
    /\ req.exc.type = "OperationalError"
    /\ req.response.status = 500
    /\ LastStep.step_number = 12

----------------------------------------------------------------------------
(* Claims about the Trace Recorder's ring (SpecRing). *)

FinIds == [i \in 1..Len(fin) |-> sess[fin[i]].request_id]

DistinctFinIds ==
    \A i, j \in 1..Len(fin) : i # j => FinIds[i] # FinIds[j]

\* The min(n, 50) most recently finalized objects.
MostRecent ==
    {fin[i] : i \in (Len(fin) - Min(Len(fin), 50) + 1)..Len(fin)}

\* C5: after n finalizations with pairwise distinct identifiers, the ring
\* holds min(n, 50) sessions, and a lookup by identifier finds a session if
\* and only if it is one of the min(n, 50) most recently finalized, and
\* then finds that one.
C5_RingKeepsMostRecent ==
    DistinctFinIds =>
        /\ Len(ring) = Min(Len(fin), 50)
        /\ \A o \in DOMAIN sess :
              LET f == GetSessionById(ring, sess, sess[o].request_id)
              IN  /\ f # 0 <=> \E x \in MostRecent :
                                   sess[x].request_id = sess[o].request_id
                  /\ f # 0 => /\ f \in MostRecent
                              /\ sess[f].request_id = sess[o].request_id
        /\ look.op = "by_id" =>
              (look.found = 0 <=>
                  \A x \in MostRecent : sess[x].request_id # look.arg)

\* After the 51st finalization the first session is looked up and not
\* found, while the second is still in the ring.
C5_Witness ==
    /\ Len(fin) = 51
    /\ DistinctFinIds
    /\ look.op = "by_id"
    /\ look.arg = sess[fin[1]].request_id
    /\ look.found = 0
    /\ GetSessionById(ring, sess, sess[fin[2]].request_id) = fin[2]

----------------------------------------------------------------------------
(* Claims about the History Store endpoints (SpecStore). *)

\* The ids in the order of their creation, the most recent first.
RECURSIVE Reverse(_)
Reverse(s) == IF s = <<>> THEN <<>> ELSE Append(Reverse(Tail(s)), Head(s))

\* C7: the list operation answers the records at positions offset+1 ..
\* offset+limit of the records in the order of their creation, the most
\* recent first.  (Stated where no row was deleted, so that the ids name
\* the records in the order of their creation.)
C7_ListMostRecentFirst ==
    (hist.status = 200 /\ ndel = 0 /\ hist.offset >= 0) =>
        hist.ids = LimitOffset(Reverse(created), hist.qlimit, hist.qoffset)

\* C8: the query the history endpoint runs has a limit in 1..100 and an
\* offset of at least 0.
C8_QueryWithinBounds ==
    hist.status # 0 =>
        /\ hist.qlimit >= 1
        /\ hist.qlimit <= 100
        /\ hist.qoffset >= 0

\* C9: a DELETE of an id that is not in the store removes nothing and
\* leaves the store as it was: the service's delete returns false, and the
\* endpoint, whose lookup did not find the id, answers 404.
C9_DeleteOfAbsentId ==
    /\ (deleted.step # "none" /\ deleted.id \notin Ids(deleted.before)) =>
          /\ ~deleted.removed
          /\ store = deleted.before
          /\ Cardinality(store) = Cardinality(deleted.before)
    /\ (deleted.step # "none" /\ ~deleted.present0) =>
          /\ deleted.status = 404
          /\ deleted.step = "lookup"
    /\ \A s \in DelSlots : del[s].pc = "deleting" => del[s].present0

\* A DELETE of an absent id was answered 404 on a store that holds rows.
C9_Witness ==
    /\ deleted.status = 404
    /\ deleted.id \notin Ids(store)
    /\ store # {}
    /\ store = deleted.before

\* C10: once a DELETE of an id was answered with the confirmation, the
\* count dropped by exactly one with that answer, every other row is as it
\* was, and the id is in the store never again.
C10_DeletedForGood ==
    /\ deleted.status = 200 =>
          /\ Cardinality(store) = Cardinality(deleted.before) - 1
          /\ \A r \in deleted.before : r.id # deleted.id => r \in store
          /\ store \subseteq deleted.before
    /\ \A id \in confirmed : id \notin Ids(store)

----------------------------------------------------------------------------
(* Claims about the records of the History Store (Spec). *)

\* C11: every record of the store has at least one position, a rating that
\* is absent or an integer of 1..10, and a positions_analyzed list that
\* names, each once, exactly the keys of its images mapping.
C11_RecordsWellFormed ==
    \A r \in store :
        /\ Len(r.positions_analyzed) >= 1
        /\ r.rating = <<>> \/ (Len(r.rating) = 1 /\ r.rating[1] \in 1..10)
        /\ Range(r.positions_analyzed) = DOMAIN r.images
        /\ Cardinality(DOMAIN r.images) = Len(r.positions_analyzed)

\* A record of two positions whose analysis rated the swing 15/10 is in the
\* store, without a rating.
C11_Witness ==
    \E r \in store :
        /\ r.analysis = OverratedAnalysis
        /\ r.rating = <<>>
        /\ Len(r.positions_analyzed) = 2

----------------------------------------------------------------------------
(* Claims about the readers of the ring (SpecRing). *)

\* The last k entries of a sequence.
LastOf(s, k) == SubSeq(s, Len(s) - k + 1, Len(s))

\* C12: for every limit N the read of the recent sessions answers the
\* min(N, 50, number stored) most recently finalized sessions, never more
\* than N of them; a lookup of an identifier no session of the ring has
\* answers not-found.  (Stated for the limits N >= 0.)
C12_RecentSessionsWithinLimit ==
    /\ (look.op = "recent" /\ look.limit >= 0) =>
          /\ Len(look.sessions) <= look.limit
          /\ look.sessions =
                LastOf(fin, Min(Min(look.limit, 50), Len(ring)))
    /\ look.op = "by_id" =>
          ((\A i \in 1..Len(ring) : sess[ring[i]].request_id # look.arg)
              => look.found = 0)

----------------------------------------------------------------------------
(* Claims about the prompt (SpecPrompt). *)

HasProgression(prompt) == "5. PROGRESSION ANALYSIS" \in Range(prompt.sections)

PromptBuilt == req.pc \in {"calling", "committing", "refreshing"}

\* The n records of a store created last.
RECURSIVE MostRecentRows(_, _)
MostRecentRows(st, n) ==
    IF n = 0 \/ st = {} THEN {}
    ELSE LET r == CHOOSE x \in st : \A y \in st : y.id <= x.id
         IN  {r} \cup MostRecentRows(st \ {r}, n - 1)

\* C13: the prompt of a request has the progression section if and only if
\* the history fetched for it is not empty; with an empty store it has
\* none, and with k >= 1 prior records it has one and lists the min(k, 3)
\* most recent prior records, each with its date and its rating.
C13_ProgressionIffHistory ==
    PromptBuilt =>
        /\ HasProgression(req.prompt) <=> req.history # <<>>
        /\ req.store0 = {} => ~HasProgression(req.prompt)
        /\ req.store0 # {} =>
              /\ HasProgression(req.prompt)
              /\ {<<l.date, l.rating_info>> : l \in Range(req.prompt.history)}
                   = {<<r.created_at,
                        IF r.rating # <<>> THEN <<"Rating", r.rating[1]>>
                        ELSE <<"Not rated", 0>>>> :
                      r \in MostRecentRows(req.store0, 3)}
              /\ Range(req.history) = MostRecentRows(req.store0, 3)

----------------------------------------------------------------------------
(* Claims about parse_analysis (SpecParse). *)

\* The patterns whose first match in the text is a number of 1..10.
InRangePatterns(txt) ==
    {i \in 1..Len(RatingPatterns) :
        /\ RatingSearch(RatingPatterns[i], txt).found
        /\ RatingSearch(RatingPatterns[i], txt).value \in 1..10}

ExtractedSummary(txt) ==
    LET hits == {i \in 1..Len(SummaryPatterns) :
                    SummarySearch(SummaryPatterns[i], txt).found}
        first == CHOOSE x \in hits : \A y \in hits : x <= y
        group == IF hits = {} THEN <<>>
                 ELSE Strip(SummarySearch(SummaryPatterns[first], txt).capture)
        content == SelectSeq(txt, LAMBDA line :
                        line # <<>> /\ line[1].k # "hash")
    IN  IF group # <<>> THEN group
        ELSE Join([i \in 1..Min(3, Len(content)) |-> LineStr(content[i])],
                  <<Piece(Space)>>)

OnPatternPath(txt) ==
    \E i \in 1..Len(SummaryPatterns) :
        SummarySearch(SummaryPatterns[i], txt).found

\* s is the string of the first characters of r.
RECURSIVE IsPrefix(_, _)
IsPrefix(s, r) ==
    \/ s = <<>>
    \/ /\ r # <<>>
       /\ Head(s).tok = Head(r).tok
       /\ \/ Head(s).n = Head(r).n /\ IsPrefix(Tail(s), Tail(r))
          \/ Head(s).n < Head(r).n /\ Tail(s) = <<>>

\* C15: the summary the parser returns is at most 500 characters long, on
\* the pattern path and on the fallback path alike: an extracted text of
\* more than 500 characters becomes its first 497 characters followed by
\* the three characters of "...", and a shorter one is returned as it is.
C15_SummaryAtMost500 ==
    (parsed.done /\ ~parsed.raised) =>
        LET raw == ExtractedSummary(text)
            s == parsed.summary
        IN  /\ StrLen(s) <= 500
            /\ StrLen(raw) <= 500 => s = raw
            /\ StrLen(raw) > 500 =>
                  /\ StrLen(s) = 500
                  /\ s[Len(s)].tok.k = "dots" /\ s[Len(s)].n = 3
                  /\ IsPrefix(SubSeq(s, 1, Len(s) - 1), raw)
                  /\ StrLen(SubSeq(s, 1, Len(s) - 1)) = 497

\* An OVERALL ASSESSMENT section of 600 characters has come back as its
\* first 497 characters and the ellipsis.
C15_Witness ==
    /\ parsed.done
    /\ text = <<<<Tok("number", 1), Tok("heading", 0)>>,
                <<Tok("dash", 0), Tok("word", 600)>>,
                <<Tok("two", 0), Tok("word", 8)>>>>
    /\ OnPatternPath(text)
    /\ StrLen(ExtractedSummary(text)) = 600
    /\ parsed.summary = <<[tok |-> Tok("word", 600), n |-> 497],
                          [tok |-> Tok("dots", 0), n |-> 3]>>

\* C16: thumbnail generation never raises: for a payload it cannot decode,
\* resize or re-encode it returns the payload unchanged, so a history
\* listing whose queries succeeded answers 200 whatever payloads the
\* records hold, with the unchanged payload as the thumbnail of a record
\* whose payload is corrupt.
RowOfId(id) == CHOOSE r \in store : r.id = id
FirstPayload(r) == r.images[r.positions_analyzed[1]]
C16_ThumbnailNeverRaises ==
    /\ \A r \in store :
          /\ ~CreateThumbnail(FirstPayload(r)).raised
          /\ ThumbnailFails(FirstPayload(r)) =>
                CreateThumbnail(FirstPayload(r)).value = FirstPayload(r)
    /\ (hist.status # 0 /\ ~QueryRaises(backend, hist.qlimit, hist.qoffset)) =>
          /\ hist.status = 200
          /\ Len(hist.thumbs) = Len(hist.ids)
          /\ \A i \in DOMAIN hist.ids :
                ThumbnailFails(FirstPayload(RowOfId(hist.ids[i]))) =>
                    hist.thumbs[i] = FirstPayload(RowOfId(hist.ids[i]))
C16_Witness ==
    /\ hist.status = 200
    /\ \E i \in DOMAIN hist.ids :
          /\ ThumbnailFails(FirstPayload(RowOfId(hist.ids[i])))
          /\ hist.thumbs[i] = <<"b64", "cut">>
    /\ \E i \in DOMAIN hist.ids : hist.thumbs[i] = <<"thumb", "jpg">>

\* C17: every analyze request finalizes its session exactly once on every
\* path: while the request is being handled its session is in no finalize
\* call and no ring entry; once it is answered its session was finalized
\* once, is in the ring once, and is "success" exactly when the answer is
\* 200 and "failed" otherwise; every handled request added one entry.
Count(s, x) == Cardinality({i \in DOMAIN s : s[i] = x})
C17_FinalizedExactlyOnce ==
    /\ req.pc \notin {"idle", "done"} =>
          /\ Count(fin, req.oid) = 0
          /\ Count(ring, req.oid) = 0
          /\ sess[req.oid].status = "in_progress"
          /\ Len(fin) = nreq - 1
    /\ req.pc = "done" =>
          /\ Count(fin, req.oid) = 1
          /\ Count(ring, req.oid) = 1
          /\ sess[req.oid].status =
                (IF req.response.status = 200 THEN "success" ELSE "failed")
          /\ Len(fin) = nreq
    /\ Len(ring) = Len(fin)
    /\ \A i, j \in DOMAIN fin : i # j => fin[i] # fin[j]
C17_Witness ==
    /\ req.pc = "done"
    /\ req.exc.type = "Exception"
    /\ req.response.status = 500
    /\ Count(fin, req.oid) = 1
    /\ sess[req.oid].status = "failed"

\* C18: the entry finalize puts into the ring is an immutable snapshot: no
\* later log_step or finalize on a session object changes the steps, the
\* errors or the metadata of an entry already in the ring.
C18_StoredEntriesImmutable ==
    [][\A o \in Range(ring) : sess'[o] = sess[o]]_vars

\* C19: every log_step call with status failed appends one entry to the
\* error list, a call with status completed sets the last-completed-step
\* counter, and the error count finalize stamps equals the number of failed
\* step events of the session.
FailedSteps(s) == {i \in DOMAIN s.steps : s.steps[i].status = "failed"}
CompletedSteps(s) == {i \in DOMAIN s.steps : s.steps[i].status = "completed"}
C19_ErrorsCountFailedSteps ==
    \A o \in DOMAIN sess :
        /\ Len(sess[o].errors) = Cardinality(FailedSteps(sess[o]))
        /\ CompletedSteps(sess[o]) # {} =>
              sess[o].steps_completed =
                  sess[o].steps[SetMax(CompletedSteps(sess[o]))].step_number
        /\ sess[o].status # "in_progress" =>
              sess[o].error_count = Cardinality(FailedSteps(sess[o]))

\* C20: within one analyze request the stages run strictly in sequence:
\* every image is validated, then every image encoded, then the history
\* fetched, then one inference call, the parse, one create and the answer;
\* no stage starts before the previous one is through, and a request makes
\* at most one inference call and at most one create call.
StageOf(call) ==
    CASE call = "validate_image" -> 1
      [] call = "image_to_base64" -> 2
      [] call = "get_recent_swings" -> 3
      [] call = "messages.create" -> 4
      [] call = "raised" -> 4
      [] call = "parse_analysis" -> 5
      [] call = "create_swing" -> 6
FullRun(n) ==
    Repeat("validate_image", n) \o Repeat("image_to_base64", n)
        \o <<"get_recent_swings", "messages.create", "parse_analysis",
             "create_swing">>
C20_StagesInSequence ==
    /\ \A i, j \in DOMAIN req.calls :
          i < j => StageOf(req.calls[i]) <= StageOf(req.calls[j])
    /\ \A i \in DOMAIN req.calls :
          StageOf(req.calls[i]) >= 2 =>
              Count(req.calls, "validate_image") = Len(req.present)
    /\ \A i \in DOMAIN req.calls :
          StageOf(req.calls[i]) >= 3 =>
              Count(req.calls, "image_to_base64") = Len(req.present)
    /\ \A i \in DOMAIN req.calls :
          StageOf(req.calls[i]) >= 4 =>
              Count(req.calls, "get_recent_swings") = 1
    /\ Count(req.calls, "messages.create") <= 1
    /\ Count(req.calls, "create_swing") <= 1
    /\ Count(req.calls, "create_swing") = 1 =>
          Count(req.calls, "messages.create") = 1
    /\ req.response.status = 200 => req.calls = FullRun(Len(req.present))
    /\ Cardinality(store) <= Cardinality(req.store0) + 1
C20_Witness ==
    /\ req.pc = "done"
    /\ req.response.status = 200
    /\ Len(req.present) = 2
    /\ req.calls = FullRun(2)

\* C21: under every interleaving of sessions being opened, logged to and
\* finalized by requests handled at the same time, and of inspection
\* reads, the ring never holds more than 50 sessions, it holds exactly the
\* most recently finalized ones in the order of their finalization (none
\* is lost but by oldest-first eviction), and every read answers only
\* sessions of the ring, each of them finalized.
Finalized(o) ==
    /\ o \in Range(fin)
    /\ sess[o].status \in {"success", "failed"}
    /\ sess[o].error_count >= 0
C21_RingConsistentUnderInterleaving ==
    /\ Len(ring) <= 50
    /\ ring = LastOf(fin, Min(Len(fin), 50))
    /\ \A i \in DOMAIN ring : Finalized(ring[i])
    /\ look.op = "recent" =>
          \A i \in DOMAIN look.sessions :
              look.sessions[i] \in Range(ring) /\ Finalized(look.sessions[i])
    /\ (look.op = "by_id" /\ look.found # 0) =>
          look.found \in Range(ring) /\ Finalized(look.found)
C21_Witness ==
    /\ Len(fin) = 51
    /\ Len(ring) = 50
    /\ \E a, b \in held :
          /\ a < b
          /\ sess[a].status = "in_progress"
          /\ ring[Len(ring)] = b

----------------------------------------------------------------------------
(* Claims about the order and the content of what is sent to the model.    *)

\* The position labels of the content blocks, in order: the text blocks
\* before the last block.
LabelsOf(content) ==
    LET labels == SelectSeq(SubSeq(content, 1, Len(content) - 1),
                            LAMBDA b : b.type = "text")
    IN  [i \in 1..Len(labels) |-> labels[i].text[2]]
UpperAll(positions) == [i \in 1..Len(positions) |-> Upper(positions[i])]

\* The rows the request in hand has created.
RowsOfRequest == {r \in store : r.id \notin Ids(req.store0)}

\* The positions in the order a request names them at each place it has
\* got to: the uploads collected, the content blocks, the prompt text and
\* the stored record.
OrderedAs(order) ==
    /\ req.present = order
    /\ req.positions # <<>> => req.positions = order
    /\ req.content # <<>> =>
          /\ LabelsOf(req.content) = UpperAll(order)
          /\ req.prompt.positions = order
    /\ \A r \in RowsOfRequest : r.positions_analyzed = order

\* C22 as the specification states it: the order of the positions in the
\* content blocks, in the prompt text and in positions_analyzed is the order
\* in which the image parts were uploaded.
C22_OrderIsUploadOrder ==
    req.pc # "idle" => OrderedAs(req.uploaded)

\* C22 as the program has it: whatever the order of the image parts in the
\* request, the order of the positions in the content blocks, in the prompt
\* text and in positions_analyzed is the fixed order address, top, impact,
\* follow_through of the positions uploaded.
C22_OrderIsFieldOrder ==
    req.pc # "idle" =>
        OrderedAs(SelectSeq(Positions, LAMBDA p : p \in Range(req.uploaded)))
C22_Witness ==
    /\ req.pc = "done"
    /\ req.response.status = 200
    /\ req.uploaded = <<"impact", "address", "follow_through">>
    /\ LabelsOf(req.content) = <<"ADDRESS", "IMPACT", "FOLLOW_THROUGH">>
    /\ \E r \in RowsOfRequest :
          r.positions_analyzed = <<"address", "impact", "follow_through">>

\* C23: for a request with n images, 1 <= n <= 4, the content submitted to
\* the model has exactly 2n+1 blocks: for the i-th position a text label
\* naming it in upper case, immediately followed by that position's image
\* block, and the prompt text as the single last block.
C23_ContentIsLabelImagePairsThenPrompt ==
    req.content # <<>> =>
        LET n == Len(req.positions)
        IN  /\ n >= 1 /\ n <= 4
            /\ n = Len(req.uploaded)
            /\ Len(req.content) = 2 * n + 1
            /\ \A i \in 1..n :
                  /\ req.content[2 * i - 1].type = "text"
                  /\ req.content[2 * i - 1].text =
                        <<"[", Upper(req.positions[i]), " POSITION]">>
                  /\ req.content[2 * i].type = "image"
                  /\ req.content[2 * i].data =
                        ImagesOf(req.encoded)[req.positions[i]]
            /\ req.content[2 * n + 1].type = "text"
            /\ req.content[2 * n + 1].text = <<"prompt", req.prompt.positions>>
            /\ \A i \in 1..(2 * n) :
                  req.content[i].type = "text" =>
                      req.content[i].text[1] # "prompt"
C23_Witness ==
    /\ Len(req.uploaded) = 4
    /\ Len(req.content) = 9
    /\ req.content[7].text = <<"[", "FOLLOW_THROUGH", " POSITION]">>
    /\ req.content[8].type = "image"
    /\ "messages.create" \in Range(req.calls)

\* C24: a storage error during the history fetch of an analyze request does
\* not fail the request: get_recent_swings answers the empty list, and the
\* request goes on to the call of the model with a prompt that has no
\* history and no progression section.
C24_FailedHistoryFetchDegrades ==
    req.history_failed =>
        /\ req.pc \in {"calling", "committing", "refreshing", "done"}
        /\ req.history = <<>>
        /\ req.prompt.history = <<>>
        /\ ~HasProgression(req.prompt)
        /\ req.content # <<>>
        /\ req.pc = "calling" => req.exc = NoExc
        /\ req.pc # "calling" => "messages.create" \in Range(req.calls)
C24_Witness ==
    /\ req.history_failed
    /\ Cardinality(req.store0) >= 2
    /\ req.pc = "done"
    /\ req.response.status = 200
    /\ ~HasProgression(req.prompt)

\* C25: the parser never propagates an error: when a runtime error occurs
\* during the extraction, parse_analysis returns (None, None), and the
\* analyze request goes on to persistence with rating and summary both
\* absent.
C25_ParseErrorGivesNoneNone ==
    /\ parsed.raised => parsed.rating = <<>> /\ parsed.summary = <<>>
    /\ req.parse_raised =>
          /\ req.rating = <<>> /\ req.summary = <<>>
          /\ req.pc \in {"committing", "refreshing", "done"}
          /\ "create_swing" \in Range(req.calls)
          /\ req.exc.type \in {"none", "OperationalError"}
          /\ \A r \in RowsOfRequest : r.rating = <<>> /\ r.summary = <<>>
C25_Witness ==
    /\ req.parse_raised
    /\ req.analysis = LongRatingAnalysis
    /\ req.pc = "done"
    /\ req.response.status = 200
    /\ \E r \in RowsOfRequest : r.rating = <<>> /\ r.summary = <<>>

\* C26: a successful validation leaves the read cursor of every upload of
\* the request at position 0, and the encoding stage that follows reads
\* exactly the bytes that were validated: the encoding of every upload is
\* the encoding of the whole content of its file.
C26_ValidationLeavesCursorAtStart ==
    /\ req.pc = "encoding" =>
          /\ Len(req.cursors) = Len(req.files)
          /\ \A i \in DOMAIN req.files : req.cursors[i] = 0
    /\ \A i \in DOMAIN req.encoded :
          req.encoded[i].data = <<"b64", req.files[i].data>>

C26_Witness ==
    /\ req.pc = "fetching"
    /\ Len(req.encoded) >= 2
    /\ \A i \in DOMAIN req.encoded :
          /\ req.encoded[i].data = <<"b64", req.files[i].data>>
          /\ req.files[i].data # ""
          /\ req.cursors[i] = 0


\* C27: the trace of a failed analyze request has exactly one failed step
\* event, it is the last event of the session, and its number is the last
\* completed step plus one, which is the number of the stage in which the
\* failure occurred: 5 for a validation failure, 9 for a failed call of
\* the model, 12 for a failed persistence.
FailedEvents(s) == {i \in DOMAIN s.steps : s.steps[i].status = "failed"}

StageOfFailure(r) ==
    IF r.exc.type = "HTTPException" THEN 5
    ELSE IF r.exc.type = "OperationalError" THEN 12
    ELSE IF "raised" \in Range(r.calls) THEN 9
    ELSE 0

C28_ConfirmationOnlyForOwnRemoval ==
    (deleted.step = "remove" /\ deleted.status = 200) =>
        /\ deleted.removed
        /\ deleted.id \in Ids(deleted.before)


\* C29: each identifier held in the ring names one session: when two
\* analyze requests were finalized with the same client-supplied request
\* identifier, a lookup by that identifier returns the most recently
\* finalized of the two sessions.
Matches(r, ss, rid) == {i \in 1..Len(r) : ss[r[i]].request_id = rid}

C29_LookupReturnsLatest ==
    (look.op = "by_id" /\ Matches(ring, sess, look.arg) # {}) =>
        look.found = ring[SetMax(Matches(ring, sess, look.arg))]


\* C30: a session in the ring has status success if and only if its
\* request created exactly one record and was answered 200; such a session
\* has no failed step event, error count 0 and last completed step 13, and
\* a session with status failed has its last completed step below 13 and
\* an error count of at least 1.
C30_SessionStatusMatchesOutcome ==
    /\ (req.pc = "done" /\ req.oid \in Range(ring)) =>
          (sess[req.oid].status = "success" <=>
              (Cardinality(RowsOfRequest) = 1 /\ req.response.status = 200))
    /\ \A o \in Range(ring) :
          /\ sess[o].status \in {"success", "failed"}
          /\ sess[o].status = "success" =>
                /\ FailedEvents(sess[o]) = {}
                /\ sess[o].error_count = 0
                /\ sess[o].steps_completed = 13
          /\ sess[o].status = "failed" =>
                /\ sess[o].steps_completed < 13
                /\ sess[o].error_count >= 1

C30_Witness ==
    /\ req.pc = "done"
    /\ req.oid \in Range(ring)
    /\ sess[req.oid].status = "success"
    /\ sess[req.oid].steps_completed = 13
    /\ Cardinality(RowsOfRequest) = 1
    /\ req.response.status = 200

====
